---- MODULE Spec2Model ----
(***************************************************************************)
(* Model of api/webhook.js: the Binance USD-M futures signal executor.     *)
(*                                                                         *)
(* One invocation of handler() reads the position, closes it through       *)
(* safeOrder, sets leverage to 1, sizes the new order with recomputeQty    *)
(* and submits it through safeOrder.  Every `await` on an exchange call or *)
(* a timer is one step of the model; the exchange's answers are chosen     *)
(* nondeterministically.                                                   *)
(*                                                                         *)
(* Quantities are counted in ticks of 0.1 contract.  A quantity that goes  *)
(* on the wire is a record [v, digits]: v ticks, printed with `digits`     *)
(* decimals.  A JS number that is not yet rounded is a fraction [n, d] of  *)
(* ticks.                                                                  *)
(***************************************************************************)
EXTENDS Integers, Sequences, FiniteSets, TLC

\* ------------------------------------------------------------- bounds
MaxBal == 3            \* wallet balances 0..MaxBal USDT
MaxMark == 3           \* mark prices 1..MaxMark USDT
MaxPosSteps == 1       \* |positionAmt| is at most MaxPosSteps lot steps
MaxTryBound == 3       \* maxTry arguments 1..MaxTryBound of a direct call
MaxFaults == 1         \* requests the exchange rejects while two runs overlap

\* ------------------------------------------------------------- program constants
DefaultMaxTry == 3
Leverage == 1

Procs == {1, 2}
Absent == "absent"

Symbols == {"BTCUSDT", "ETHUSDT"}
Methods == {"POST", "GET"}
Signals == {"BUY", "sell", "HOLD"}
Bodies == [symbol : Symbols \cup {Absent}, signal : Signals \cup {Absent}]

Balances == 0..MaxBal
Marks == 1..MaxMark

\* The LOT_SIZE filter the exchange publishes for each symbol, in ticks:
\* BTCUSDT 0.1, ETHUSDT 0.5.
ExchangeLotSize ==
  [s \in Symbols |-> IF s = "BTCUSDT" THEN [stepSize |-> 1, minQty |-> 1]
                                      ELSE [stepSize |-> 5, minQty |-> 5]]

\* Position amounts the exchange reports: multiples of the symbol's lot step.
PosAmts(symbol) ==
  {k * ExchangeLotSize[symbol].stepSize : k \in (0 - MaxPosSteps)..MaxPosSteps}

\* ------------------------------------------------------------- errors
NoCode == "nocode"
OrderErrorBodies ==
  {"-2019", "-1013", "-1111", "-2021", "-429", "-418", "-4164", NoCode}

Err(path, code) == [path |-> path, code |-> code]
NoErr == Err("", "")

\* line 81: the code is the first "code": number of the message, else "unknown"
ParseCode(e) == IF e.code = NoCode THEN "unknown" ELSE e.code

\* ------------------------------------------------------------- numbers
\* a closing quantity that keeps the sign of positionAmt
AbsSigned(x) == x

\* line 129: Math.abs
Abs(x) == IF x < 0 THEN 0 - x ELSE x

\* decimals JS prints for a number of v ticks (Number -> string)
NumDigits(v) == IF v % 10 = 0 THEN 0 ELSE 1
Num(v) == [v |-> v, digits |-> NumDigits(v)]
NoQty == [v |-> 0, digits |-> 0]

\* a wire quantity read back as a JS number (string coerced by `/`)
Frac(q) == [n |-> q.v, d |-> 1]

\* Decimal inputs q (in ticks) for which the IEEE-754 quotient q/0.1 falls
\* just below the integer q, so that Math.floor loses one step.
FloatUndershoot ==
  {3, 6, 7, 12, 14, 19, 23, 24, 28, 29, 33, 38, 41, 43, 46, 48, 51, 53, 56, 58}

\* Math.floor(qty / step) in double arithmetic
FloatFloorDiv(x, step) ==
  LET exact == x.n \div (x.d * step)
  IN IF x.d = 1 /\ step = 1 /\ x.n \in FloatUndershoot THEN exact - 1 ELSE exact

\* (step.toString().split(".")[1] || "").length
Prec(step) == IF step % 10 = 0 THEN 0 ELSE 1

\* Number.prototype.toFixed on a value of v ticks
ToFixed(v, digits) ==
  [v |-> IF digits = 0 THEN ((v + 5) \div 10) * 10 ELSE v, digits |-> digits]

\* roundStep without the floor to a step: the raw quantity is only formatted
roundStepFormatOnly(x, step) == ToFixed((2 * x.n + x.d) \div (2 * x.d), Prec(step))

roundStep(x, step) == ToFixed(FloatFloorDiv(x, step) * step, Prec(step))

\* (bal * 0.998) / mark, in ticks
RawQty(b, m) == [n |-> b * 998, d |-> m * 100]

\* ------------------------------------------------------------- requests
Req(symbol, side, type, quantity, reduceOnly, price, timeInForce) ==
  [symbol |-> symbol, side |-> side, type |-> type, quantity |-> quantity,
   reduceOnly |-> reduceOnly, price |-> price, timeInForce |-> timeInForce]
NoReq == Req(Absent, Absent, Absent, NoQty, Absent, Absent, Absent)

\* closing request with the side of the position instead of the opposite one
CloseRequestSameSide(symbol, amt) ==
  Req(symbol, IF amt > 0 THEN "BUY" ELSE "SELL", "MARKET", Num(Abs(amt)),
      "true", Absent, Absent)

\* lines 125-131
CloseRequest(symbol, amt) ==
  Req(symbol, IF amt > 0 THEN "SELL" ELSE "BUY", "MARKET", Num(Abs(amt)),
      "true", Absent, Absent)

\* a sizing order that carries the closing order's reduceOnly flag
SizingRequestReduceOnly(symbol, sd, qty) ==
  Req(symbol, sd, "MARKET", qty, "true", Absent, Absent)

\* lines 141-146
SizingRequest(symbol, sd, qty) ==
  Req(symbol, sd, "MARKET", qty, Absent, Absent, Absent)

\* -2021 correction that forgets to delete the price
ForceMarketKeepsPrice(params) == [params EXCEPT !.type = "MARKET", !.timeInForce = Absent]

\* lines 92-94
ForceMarket(params) ==
  [params EXCEPT !.type = "MARKET", !.price = Absent, !.timeInForce = Absent]

\* an assignment to params.quantity that is lost
SetQuantityLost(params, qty) == params

\* lines 87, 90: params.quantity = qty
SetQuantity(params, qty) == [params EXCEPT !.quantity = qty]

\* retry test that allows one attempt too many
MayRetryOffByOne(attempt, maxTry) == attempt <= maxTry

\* line 99
MayRetry(attempt, maxTry) == attempt < maxTry

ToUpperCase(s) == IF s = "buy" THEN "BUY" ELSE IF s = "sell" THEN "SELL" ELSE s

\* a side test that lets every signal through
IsSideAny(sd) == TRUE

\* line 119: ["BUY", "SELL"].includes(side)
IsSide(sd) == sd \in {"BUY", "SELL"}

\* ------------------------------------------------------------- events
Event(label, attempt, code, msg) ==
  [label |-> label, attempt |-> attempt, code |-> code, msg |-> msg]
NoEvent == Event("none", 0, "", NoErr)

NoRes == [orderId |-> 0, req |-> NoReq]
NoResponse == [status |-> 0, ok |-> FALSE, order |-> NoRes, error |-> NoErr]

CallKinds == {"positionRisk", "order", "leverage", "account", "exchangeInfo"}
NoCalls == [k \in CallKinds |-> 0]

\* error bodies of the exchange calls other than the order submission
CallErrorBodies == {"-1000"}

\* frames of the three async functions
SoIdle == [pc |-> "none", params |-> NoReq, maxTry |-> 0, attempt |-> 0,
           err |-> NoErr, res |-> NoRes, thrown |-> NoErr]
RqIdle == [pc |-> "none", symbol |-> Absent, bal |-> 0, mark |-> 0, ret |-> NoQty]
GiIdle == [pc |-> "none", symbol |-> Absent, ret |-> [stepSize |-> 0, minQty |-> 0]]
NoFilter == [stepSize |-> 0, minQty |-> 0]

VARIABLES
  req,            \* req[p]: the inbound request [method, body]
  pc,             \* pc[p]: where handler() is suspended
  side,           \* handler local `side`
  posAmt,         \* handler local `posAmt`
  exc,            \* the error caught by handler()'s catch clause
  response,       \* what handler() answered
  forwarded,      \* TRUE once the payload was forwarded to the logging bot
  so,             \* so[p]: frame of the running safeOrder call
  rq,             \* rq[p]: frame of the running recomputeQty call
  gi,             \* gi[p]: frame of the running getExchangeInfo call
  CACHED_INFO,    \* the process-wide Map symbol -> {stepSize, minQty}
  orderSeq,       \* exchange side: number of orders accepted so far
  calls,          \* calls[p][k]: exchange requests of kind k issued by run p
  lastEvent,      \* lastEvent[p]: the last event run p gave to logEvent
  nSubmit,        \* POST /fapi/v1/order submissions of the current safeOrder call
  sent,           \* the request of the last order submission
  lastSubmitErr,  \* the error of the last failed order submission
  limitRejectedAt, \* attempt of the current safeOrder call that first failed with -2021, else 0
  levSent,        \* leverage value of the run's POST /fapi/v1/leverage, 0 if none
  fails,          \* fails[p][k]: requests of kind k of run p the exchange rejected
  env,            \* what the exchange may answer: [faultLimit, orderErrors,
                  \* positions, balances, marks, filters]
  raced           \* two runs held the same nonzero snapshot before either closed

vars == <<req, pc, side, posAmt, exc, response, forwarded, so, rq, gi, CACHED_INFO,
          orderSeq, calls, lastEvent, nSubmit, sent, lastSubmitErr,
          limitRejectedAt, levSent, fails, env, raced>>

\* ------------------------------------------------------------- initial states
IdleInit ==
  /\ side = [p \in Procs |-> Absent]
  /\ posAmt = [p \in Procs |-> 0]
  /\ exc = [p \in Procs |-> NoErr]
  /\ response = [p \in Procs |-> NoResponse]
  /\ forwarded = [p \in Procs |-> FALSE]
  /\ rq = [p \in Procs |-> RqIdle]
  /\ gi = [p \in Procs |-> GiIdle]
  /\ CACHED_INFO = [s \in Symbols |-> NoFilter]
  /\ orderSeq = 0
  /\ calls = [p \in Procs |-> NoCalls]
  /\ lastEvent = [p \in Procs |-> NoEvent]
  /\ nSubmit = [p \in Procs |-> 0]
  /\ sent = [p \in Procs |-> NoReq]
  /\ lastSubmitErr = [p \in Procs |-> NoErr]
  /\ limitRejectedAt = [p \in Procs |-> 0]
  /\ levSent = [p \in Procs |-> 0]
  /\ fails = [p \in Procs |-> NoCalls]
  /\ raced = FALSE

\* an exchange that may reject any request and report any balance and price
AnyAnswer ==
  [faultLimit |-> 0 - 1, orderErrors |-> OrderErrorBodies,
   positions |-> [s \in Symbols |-> PosAmts(s)],
   balances |-> Balances, marks |-> Marks,
   filters |-> [s \in Symbols |-> {ExchangeLotSize[s]}]]

NoRequest == [method |-> Absent, body |-> [symbol |-> Absent, signal |-> Absent]]

\* one webhook delivery; invocation 2 never arrives
Init ==
  /\ IdleInit
  /\ env = AnyAnswer
  /\ \E m \in Methods, b \in Bodies :
       req = [p \in Procs |-> IF p = 1 THEN [method |-> m, body |-> b] ELSE NoRequest]
  /\ pc = [p \in Procs |-> IF p = 1 THEN "start" ELSE "absent"]
  /\ so = [p \in Procs |-> SoIdle]

\* ------------------------------------------------------------- calls and throws
\* line 73: entry of safeOrder(params, maxTry)
SoStart(params, maxTry) ==
  [pc |-> "submit", params |-> params, maxTry |-> maxTry, attempt |-> 1,
   err |-> NoErr, res |-> NoRes, thrown |-> NoErr]

\* line 46: entry of recomputeQty(symbol); the account request is issued
RqStart(symbol) ==
  [pc |-> "account", symbol |-> symbol, bal |-> 0, mark |-> 0, ret |-> NoQty]

\* getExchangeInfo without line 34: every call fetches
GiStartNoCache(symbol) ==
  [pc |-> "fetch", symbol |-> symbol, ret |-> NoFilter]

\* lines 34-36: entry of getExchangeInfo(symbol): a hit returns the stored
\* object, a miss issues the exchangeInfo request
GiStart(symbol) ==
  IF CACHED_INFO[symbol] # NoFilter
  THEN [pc |-> "ret", symbol |-> symbol, ret |-> CACHED_INFO[symbol]]
  ELSE [pc |-> "fetch", symbol |-> symbol, ret |-> NoFilter]

\* a catch clause that answers without logging "fatal"
UnwindSilent(p, e) ==
  IF pc[p] = "direct"
  THEN UNCHANGED <<pc, exc, lastEvent>>
  ELSE /\ pc' = [pc EXCEPT ![p] = "fatal"]
       /\ exc' = [exc EXCEPT ![p] = e]
       /\ UNCHANGED lastEvent

\* lines 156-157: the handler's catch clause takes the error and logs "fatal";
\* a direct safeOrder call has no enclosing handler
Unwind(p, e) ==
  IF pc[p] = "direct"
  THEN UNCHANGED <<pc, exc, lastEvent>>
  ELSE /\ pc' = [pc EXCEPT ![p] = "fatal"]
       /\ exc' = [exc EXCEPT ![p] = e]
       /\ lastEvent' = [lastEvent EXCEPT ![p] = Event("fatal", 0, "", e)]

\* an exchange call outside safeOrder's try block fails: the error leaves
\* recomputeQty, getExchangeInfo and safeOrder (whose catch block is running)
Raise(p, e) ==
  /\ rq' = [rq EXCEPT ![p] = RqIdle]
  /\ gi' = [gi EXCEPT ![p] = GiIdle]
  /\ so' = [so EXCEPT ![p] = IF @.pc = "none" THEN @
                             ELSE [@ EXCEPT !.pc = "threw", !.thrown = e]]
  /\ Unwind(p, e)

Answered(p, kind) == calls' = [calls EXCEPT ![p][kind] = @ + 1]

\* rejections the exchange has given so far
RunFails(p) ==
  fails[p]["positionRisk"] + fails[p]["order"] + fails[p]["leverage"]
    + fails[p]["account"] + fails[p]["exchangeInfo"]
TotalFails == RunFails(1) + RunFails(2)

\* the exchange rejects the request of kind `kind` of run p
Rejects(p, kind) ==
  /\ env.faultLimit < 0 \/ TotalFails < env.faultLimit
  /\ fails' = [fails EXCEPT ![p][kind] = @ + 1]

\* the per-call observations start afresh with each safeOrder call
SoGhostStart(p) ==
  /\ nSubmit' = [nSubmit EXCEPT ![p] = 0]
  /\ sent' = [sent EXCEPT ![p] = NoReq]
  /\ lastSubmitErr' = [lastSubmitErr EXCEPT ![p] = NoErr]
  /\ limitRejectedAt' = [limitRejectedAt EXCEPT ![p] = 0]

\* ------------------------------------------------------------- handler
\* lines 110-119
Validate(p) ==
  /\ UNCHANGED <<fails, env, raced>>
  /\ pc[p] = "start"
  /\ UNCHANGED <<req, posAmt, forwarded, CACHED_INFO, orderSeq, calls, nSubmit,
                 sent, lastSubmitErr, limitRejectedAt, levSent>>
  /\ LET b == req[p].body IN
     IF req[p].method # "POST"
     THEN /\ response' = [response EXCEPT ![p] =
                 [status |-> 405, ok |-> FALSE, order |-> NoRes,
                  error |-> Err("handler", "Method Not Allowed")]]
          /\ pc' = [pc EXCEPT ![p] = "done"]
          /\ UNCHANGED <<side, exc, lastEvent, so, rq, gi>>
     ELSE IF b.symbol = Absent \/ b.signal = Absent
     THEN Raise(p, Err("handler", "Payload incomplete")) /\ UNCHANGED <<side, response>>
     ELSE IF ~IsSide(ToUpperCase(b.signal))
     THEN /\ Raise(p, Err("handler", "Signal must be BUY or SELL"))
          /\ side' = [side EXCEPT ![p] = ToUpperCase(b.signal)]
          /\ UNCHANGED response
     ELSE /\ side' = [side EXCEPT ![p] = ToUpperCase(b.signal)]
          /\ pc' = [pc EXCEPT ![p] = "position"]
          /\ UNCHANGED <<exc, response, lastEvent, so, rq, gi>>

\* another run holds the snapshot a of the same symbol and has not yet
\* submitted its closing order
HoldsSameSnapshot(p, a) ==
  \E q \in Procs \ {p} :
    /\ a # 0
    /\ pc[q] = "close"
    /\ calls[q]["order"] = 0
    /\ posAmt[q] = a
    /\ req[q].body.symbol = req[p].body.symbol

\* lines 122-132: the position snapshot arrives; a nonzero amount is closed
ReadPosition(p) ==
  /\ UNCHANGED env
  /\ pc[p] = "position"
  /\ Answered(p, "positionRisk")
  /\ UNCHANGED <<req, side, response, forwarded, CACHED_INFO, orderSeq, levSent>>
  /\ \/ \E c \in CallErrorBodies :
          /\ Raise(p, Err("/fapi/v3/positionRisk", c))
          /\ Rejects(p, "positionRisk")
          /\ UNCHANGED <<posAmt, nSubmit, sent, lastSubmitErr, limitRejectedAt, raced>>
     \/ \E a \in env.positions[req[p].body.symbol] :
          /\ posAmt' = [posAmt EXCEPT ![p] = a]
          /\ raced' = (raced \/ HoldsSameSnapshot(p, a))
          /\ UNCHANGED <<exc, lastEvent, rq, gi, fails>>
          /\ IF a # 0
             THEN /\ so' = [so EXCEPT ![p] =
                         SoStart(CloseRequest(req[p].body.symbol, a), DefaultMaxTry)]
                  /\ SoGhostStart(p)
                  /\ pc' = [pc EXCEPT ![p] = "close"]
             ELSE /\ pc' = [pc EXCEPT ![p] = "leverage"]
                  /\ UNCHANGED <<so, nSubmit, sent, lastSubmitErr, limitRejectedAt>>

\* line 132 -> 135: the closing safeOrder returned; the leverage request goes out
CloseReturned(p) ==
  /\ UNCHANGED <<fails, env, raced>>
  /\ pc[p] = "close"
  /\ so[p].pc = "returned"
  /\ pc' = [pc EXCEPT ![p] = "leverage"]
  /\ so' = [so EXCEPT ![p] = SoIdle]
  /\ UNCHANGED <<req, side, posAmt, exc, response, forwarded, rq, gi, CACHED_INFO,
                 orderSeq, calls, lastEvent, nSubmit, sent, lastSubmitErr,
                 limitRejectedAt, levSent>>

\* a leverage call whose failure is ignored: sizing starts on either answer
SetLeverageUnchecked(p) ==
  /\ UNCHANGED <<env, raced>>
  /\ pc[p] = "leverage"
  /\ Answered(p, "leverage")
  /\ levSent' = [levSent EXCEPT ![p] = Leverage]
  /\ UNCHANGED <<req, side, posAmt, response, forwarded, CACHED_INFO, orderSeq,
                 nSubmit, sent, lastSubmitErr, limitRejectedAt>>
  /\ Rejects(p, "leverage") \/ UNCHANGED fails
  /\ pc' = [pc EXCEPT ![p] = "size"]
  /\ rq' = [rq EXCEPT ![p] = RqStart(req[p].body.symbol)]
  /\ UNCHANGED <<exc, lastEvent, so, gi>>

\* lines 135-138: the leverage call is answered; recomputeQty starts
SetLeverage(p) ==
  /\ UNCHANGED <<env, raced>>
  /\ pc[p] = "leverage"
  /\ Answered(p, "leverage")
  /\ levSent' = [levSent EXCEPT ![p] = Leverage]
  /\ UNCHANGED <<req, side, posAmt, response, forwarded, CACHED_INFO, orderSeq,
                 nSubmit, sent, lastSubmitErr, limitRejectedAt>>
  /\ \/ \E c \in CallErrorBodies :
          Raise(p, Err("/fapi/v1/leverage", c)) /\ Rejects(p, "leverage")
     \/ /\ UNCHANGED fails
        /\ pc' = [pc EXCEPT ![p] = "size"]
        /\ rq' = [rq EXCEPT ![p] = RqStart(req[p].body.symbol)]
        /\ UNCHANGED <<exc, lastEvent, so, gi>>

\* lines 138-146: recomputeQty returned; the sizing order goes to safeOrder
SizeReturned(p) ==
  /\ UNCHANGED <<fails, env, raced>>
  /\ pc[p] = "size"
  /\ rq[p].pc = "ret"
  /\ pc' = [pc EXCEPT ![p] = "order"]
  /\ rq' = [rq EXCEPT ![p] = RqIdle]
  /\ so' = [so EXCEPT ![p] =
         SoStart(SizingRequest(req[p].body.symbol, side[p], rq[p].ret), DefaultMaxTry)]
  /\ SoGhostStart(p)
  /\ UNCHANGED <<req, side, posAmt, exc, response, forwarded, gi, CACHED_INFO,
                 orderSeq, calls, lastEvent, levSent>>

\* lines 146-155: the sizing safeOrder returned; forward the payload, answer
OrderReturned(p) ==
  /\ UNCHANGED <<fails, env, raced>>
  /\ pc[p] = "order"
  /\ so[p].pc = "returned"
  /\ forwarded' = [forwarded EXCEPT ![p] = TRUE]
  /\ response' = [response EXCEPT ![p] =
         [status |-> 200, ok |-> TRUE, order |-> so[p].res, error |-> NoErr]]
  /\ pc' = [pc EXCEPT ![p] = "done"]
  /\ UNCHANGED <<req, side, posAmt, exc, so, rq, gi, CACHED_INFO, orderSeq, calls,
                 lastEvent, nSubmit, sent, lastSubmitErr, limitRejectedAt, levSent>>

\* line 158: after the "fatal" event the failure is answered
SendFailure(p) ==
  /\ UNCHANGED <<fails, env, raced>>
  /\ pc[p] = "fatal"
  /\ response' = [response EXCEPT ![p] =
         [status |-> 500, ok |-> FALSE, order |-> NoRes, error |-> exc[p]]]
  /\ pc' = [pc EXCEPT ![p] = "done"]
  /\ UNCHANGED <<req, side, posAmt, exc, forwarded, so, rq, gi, CACHED_INFO,
                 orderSeq, calls, lastEvent, nSubmit, sent, lastSubmitErr,
                 limitRejectedAt, levSent>>

\* ------------------------------------------------------------- safeOrder
\* a missing `return res`: the loop goes on after a success
AfterResponseNoReturn(attempt, maxTry) ==
  IF attempt < maxTry THEN "backoff" ELSE "returned"

\* line 79: `return res` leaves the loop
AfterResponse(attempt, maxTry) == "returned"

\* lines 76-82: "request" event, POST /fapi/v1/order, then either the
\* "response" event and the return, or the catch clause with its "error" event
SubmitOrder(p) ==
  /\ UNCHANGED <<env, raced>>
  /\ so[p].pc = "submit"
  /\ Answered(p, "order")
  /\ sent' = [sent EXCEPT ![p] = so[p].params]
  /\ nSubmit' = [nSubmit EXCEPT ![p] = @ + 1]
  /\ UNCHANGED <<req, pc, side, posAmt, exc, response, forwarded, rq, gi,
                 CACHED_INFO, levSent>>
  /\ \/ /\ orderSeq' = orderSeq + 1
        /\ UNCHANGED fails
        /\ so' = [so EXCEPT ![p] =
               [@ EXCEPT !.pc = AfterResponse(so[p].attempt, so[p].maxTry),
                         !.res = [orderId |-> orderSeq + 1, req |-> so[p].params]]]
        /\ lastEvent' = [lastEvent EXCEPT ![p] =
               Event("response", so[p].attempt, "", NoErr)]
        /\ UNCHANGED <<lastSubmitErr, limitRejectedAt>>
     \/ \E c \in env.orderErrors :
          LET e == Err("/fapi/v1/order", c) IN
          /\ Rejects(p, "order")
          /\ so' = [so EXCEPT ![p] = [@ EXCEPT !.pc = "caught", !.err = e]]
          /\ lastEvent' = [lastEvent EXCEPT ![p] =
                 Event("error", so[p].attempt, ParseCode(e), e)]
          /\ lastSubmitErr' = [lastSubmitErr EXCEPT ![p] = e]
          /\ limitRejectedAt' = [limitRejectedAt EXCEPT ![p] =
                 IF @ = 0 /\ ParseCode(e) = "-2021" THEN so[p].attempt ELSE @]
          /\ UNCHANGED orderSeq

\* lines 99-103: after the correction, back off if attempts remain, else
\* rethrow the caught error; newParams is the corrected request
EndAttempt(p, newParams) ==
  IF MayRetry(so[p].attempt, so[p].maxTry)
  THEN /\ so' = [so EXCEPT ![p] = [@ EXCEPT !.pc = "backoff", !.params = newParams]]
       /\ UNCHANGED <<pc, exc, lastEvent>>
  ELSE /\ so' = [so EXCEPT ![p] =
              [@ EXCEPT !.pc = "threw", !.params = newParams, !.thrown = so[p].err]]
       /\ Unwind(p, so[p].err)

\* lines 85-86: -2019, recomputeQty is called
CorrectMargin(p) ==
  /\ UNCHANGED <<fails, env, raced>>
  /\ so[p].pc = "caught"
  /\ ParseCode(so[p].err) = "-2019"
  /\ so' = [so EXCEPT ![p].pc = "margin"]
  /\ rq' = [rq EXCEPT ![p] = RqStart(so[p].params.symbol)]
  /\ UNCHANGED <<req, pc, side, posAmt, exc, response, forwarded, gi, CACHED_INFO,
                 orderSeq, calls, lastEvent, nSubmit, sent, lastSubmitErr,
                 limitRejectedAt, levSent>>

\* line 87: recomputeQty returned, the quantity is overwritten
MarginDone(p) ==
  /\ UNCHANGED <<fails, env, raced>>
  /\ so[p].pc = "margin"
  /\ rq[p].pc = "ret"
  /\ EndAttempt(p, SetQuantity(so[p].params, rq[p].ret))
  /\ rq' = [rq EXCEPT ![p] = RqIdle]
  /\ UNCHANGED <<req, side, posAmt, response, forwarded, gi, CACHED_INFO, orderSeq,
                 calls, nSubmit, sent, lastSubmitErr, limitRejectedAt, levSent>>

\* lines 88-89: -1013 / -1111, getExchangeInfo is called
CorrectPrecision(p) ==
  /\ UNCHANGED <<fails, env, raced>>
  /\ so[p].pc = "caught"
  /\ ParseCode(so[p].err) \in {"-1013", "-1111"}
  /\ so' = [so EXCEPT ![p].pc = "precision"]
  /\ gi' = [gi EXCEPT ![p] = GiStart(so[p].params.symbol)]
  /\ UNCHANGED <<req, pc, side, posAmt, exc, response, forwarded, rq, CACHED_INFO,
                 orderSeq, calls, lastEvent, nSubmit, sent, lastSubmitErr,
                 limitRejectedAt, levSent>>

\* line 90: the existing quantity is re-rounded to the step
PrecisionDone(p) ==
  /\ UNCHANGED <<fails, env, raced>>
  /\ so[p].pc = "precision"
  /\ gi[p].pc = "ret"
  /\ EndAttempt(p, SetQuantity(so[p].params,
                   roundStep(Frac(so[p].params.quantity), gi[p].ret.stepSize)))
  /\ gi' = [gi EXCEPT ![p] = GiIdle]
  /\ UNCHANGED <<req, side, posAmt, response, forwarded, rq, CACHED_INFO, orderSeq,
                 calls, nSubmit, sent, lastSubmitErr, limitRejectedAt, levSent>>

\* lines 91-94: -2021, the order becomes a MARKET order
CorrectLimit(p) ==
  /\ UNCHANGED <<fails, env, raced>>
  /\ so[p].pc = "caught"
  /\ ParseCode(so[p].err) = "-2021"
  /\ EndAttempt(p, ForceMarket(so[p].params))
  /\ UNCHANGED <<req, side, posAmt, response, forwarded, rq, gi, CACHED_INFO,
                 orderSeq, calls, nSubmit, sent, lastSubmitErr, limitRejectedAt,
                 levSent>>

\* lines 95-96: -429 / -418, the 60 s cool-down timer is set
CoolDown(p) ==
  /\ UNCHANGED <<fails, env, raced>>
  /\ so[p].pc = "caught"
  /\ ParseCode(so[p].err) \in {"-429", "-418"}
  /\ so' = [so EXCEPT ![p].pc = "cooldown"]
  /\ UNCHANGED <<req, pc, side, posAmt, exc, response, forwarded, rq, gi,
                 CACHED_INFO, orderSeq, calls, lastEvent, nSubmit, sent,
                 lastSubmitErr, limitRejectedAt, levSent>>

\* a cool-down promise that is never resolved
CoolDownNeverDone(p) ==
  /\ so[p].pc = "cooldown"
  /\ FALSE
  /\ UNCHANGED vars

\* line 96 -> 99: the cool-down timer fires
CoolDownDone(p) ==
  /\ UNCHANGED <<fails, env, raced>>
  /\ so[p].pc = "cooldown"
  /\ EndAttempt(p, so[p].params)
  /\ UNCHANGED <<req, side, posAmt, response, forwarded, rq, gi, CACHED_INFO,
                 orderSeq, calls, nSubmit, sent, lastSubmitErr, limitRejectedAt,
                 levSent>>

\* an uncorrected code that falls into the -2021 branch
NoCorrectionForcesMarket(p) ==
  /\ UNCHANGED <<fails, env, raced>>
  /\ so[p].pc = "caught"
  /\ ParseCode(so[p].err) \notin {"-2019", "-1013", "-1111", "-2021", "-429", "-418"}
  /\ EndAttempt(p, ForceMarket(so[p].params))
  /\ UNCHANGED <<req, side, posAmt, response, forwarded, rq, gi, CACHED_INFO,
                 orderSeq, calls, nSubmit, sent, lastSubmitErr, limitRejectedAt,
                 levSent>>

\* lines 85-99: any other code, no branch is taken
NoCorrection(p) ==
  /\ UNCHANGED <<fails, env, raced>>
  /\ so[p].pc = "caught"
  /\ ParseCode(so[p].err) \notin {"-2019", "-1013", "-1111", "-2021", "-429", "-418"}
  /\ EndAttempt(p, so[p].params)
  /\ UNCHANGED <<req, side, posAmt, response, forwarded, rq, gi, CACHED_INFO,
                 orderSeq, calls, nSubmit, sent, lastSubmitErr, limitRejectedAt,
                 levSent>>

\* lines 100-101, 74: the backoff timer fires, the next attempt starts
Backoff(p) ==
  /\ UNCHANGED <<fails, env, raced>>
  /\ so[p].pc = "backoff"
  /\ so' = [so EXCEPT ![p] = [@ EXCEPT !.pc = "submit", !.attempt = @ + 1]]
  /\ UNCHANGED <<req, pc, side, posAmt, exc, response, forwarded, rq, gi,
                 CACHED_INFO, orderSeq, calls, lastEvent, nSubmit, sent,
                 lastSubmitErr, limitRejectedAt, levSent>>

\* ------------------------------------------------------------- recomputeQty
\* lines 47-50: the account answer arrives, the positionRisk request goes out
RecomputeAccount(p) ==
  /\ UNCHANGED <<env, raced>>
  /\ rq[p].pc = "account"
  /\ Answered(p, "account")
  /\ UNCHANGED <<req, side, posAmt, response, forwarded, CACHED_INFO, orderSeq,
                 nSubmit, sent, lastSubmitErr, limitRejectedAt, levSent>>
  /\ \/ \E c \in CallErrorBodies :
          Raise(p, Err("/fapi/v2/account", c)) /\ Rejects(p, "account")
     \/ \E b \in env.balances :
          /\ UNCHANGED fails
          /\ rq' = [rq EXCEPT ![p] = [@ EXCEPT !.pc = "position", !.bal = b]]
          /\ UNCHANGED <<pc, exc, lastEvent, so, gi>>

\* lines 50-53: the positionRisk answer arrives (an error, or an empty array
\* whose [0].markPrice throws), getExchangeInfo is called
RecomputePosition(p) ==
  /\ UNCHANGED <<env, raced>>
  /\ rq[p].pc = "position"
  /\ Answered(p, "positionRisk")
  /\ UNCHANGED <<req, side, posAmt, response, forwarded, CACHED_INFO, orderSeq,
                 nSubmit, sent, lastSubmitErr, limitRejectedAt, levSent>>
  /\ \/ \E c \in CallErrorBodies :
          Raise(p, Err("/fapi/v3/positionRisk", c)) /\ Rejects(p, "positionRisk")
     \/ \E m \in env.marks :
          /\ UNCHANGED fails
          /\ rq' = [rq EXCEPT ![p] = [@ EXCEPT !.pc = "info", !.mark = m]]
          /\ gi' = [gi EXCEPT ![p] = GiStart(rq[p].symbol)]
          /\ UNCHANGED <<pc, exc, lastEvent, so>>

\* line 54 without roundStep: the raw quantity is returned
RecomputedQtyRaw(b, m, stepSize) == roundStepFormatOnly(RawQty(b, m), stepSize)

\* line 54
RecomputedQty(b, m, stepSize) == roundStep(RawQty(b, m), stepSize)

\* lines 53-56: getExchangeInfo returned, the quantity is computed
RecomputeDone(p) ==
  /\ UNCHANGED <<fails, env, raced>>
  /\ rq[p].pc = "info"
  /\ gi[p].pc = "ret"
  /\ rq' = [rq EXCEPT ![p] =
         [@ EXCEPT !.pc = "ret",
                   !.ret = RecomputedQty(rq[p].bal, rq[p].mark, gi[p].ret.stepSize)]]
  /\ gi' = [gi EXCEPT ![p] = GiIdle]
  /\ UNCHANGED <<req, pc, side, posAmt, exc, response, forwarded, so, CACHED_INFO,
                 orderSeq, calls, lastEvent, nSubmit, sent, lastSubmitErr,
                 limitRejectedAt, levSent>>

\* ------------------------------------------------------------- getExchangeInfo
\* lines 36-43: the exchangeInfo answer arrives (an error, or a body without
\* the symbol or its LOT_SIZE filter, throws); the filter is stored
ExchangeInfoResponse(p) ==
  /\ UNCHANGED <<env, raced>>
  /\ gi[p].pc = "fetch"
  /\ Answered(p, "exchangeInfo")
  /\ UNCHANGED <<req, side, posAmt, response, forwarded, orderSeq, nSubmit, sent,
                 lastSubmitErr, limitRejectedAt, levSent>>
  /\ \/ \E c \in CallErrorBodies :
          /\ Raise(p, Err("/fapi/v1/exchangeInfo", c))
          /\ Rejects(p, "exchangeInfo")
          /\ UNCHANGED CACHED_INFO
     \/ \E obj \in env.filters[gi[p].symbol] :
          /\ UNCHANGED fails
          /\ CACHED_INFO' = [CACHED_INFO EXCEPT ![gi[p].symbol] = obj]
          /\ gi' = [gi EXCEPT ![p] = [@ EXCEPT !.pc = "ret", !.ret = obj]]
          /\ UNCHANGED <<pc, exc, lastEvent, so, rq>>

\* ------------------------------------------------------------- specifications
Next ==
  \E p \in Procs :
    \/ Validate(p)
    \/ ReadPosition(p)
    \/ CloseReturned(p)
    \/ SetLeverage(p)
    \/ SizeReturned(p)
    \/ OrderReturned(p)
    \/ SendFailure(p)
    \/ SubmitOrder(p)
    \/ CorrectMargin(p)
    \/ MarginDone(p)
    \/ CorrectPrecision(p)
    \/ PrecisionDone(p)
    \/ CorrectLimit(p)
    \/ CoolDown(p)
    \/ CoolDownDone(p)
    \/ NoCorrection(p)
    \/ Backoff(p)
    \/ RecomputeAccount(p)
    \/ RecomputePosition(p)
    \/ RecomputeDone(p)
    \/ ExchangeInfoResponse(p)

Spec == Init /\ [][Next]_vars

\* One delivery under the assumption that every pending exchange call is
\* answered and every timer fires: a step that can be taken is taken.  The
\* exchange may reject any request; it reports one balance and one mark price.
FairAnswer ==
  [faultLimit |-> 0 - 1, orderErrors |-> OrderErrorBodies,
   positions |-> [s \in Symbols |-> PosAmts(s)],
   balances |-> {MaxBal}, marks |-> {1},
   filters |-> [s \in Symbols |-> {ExchangeLotSize[s]}]]

InitFair ==
  /\ IdleInit
  /\ env = FairAnswer
  /\ \E m \in Methods, b \in Bodies :
       req = [p \in Procs |-> IF p = 1 THEN [method |-> m, body |-> b] ELSE NoRequest]
  /\ pc = [p \in Procs |-> IF p = 1 THEN "start" ELSE "absent"]
  /\ so = [p \in Procs |-> SoIdle]

FairSpec == InitFair /\ [][Next]_vars /\ WF_vars(Next)

\* Two overlapping webhook deliveries for one symbol with an open short
\* position.  The exchange rejects at most MaxFaults requests (an order with
\* one code of each branch of lines 85-97), reports one balance and one mark
\* price, and may publish a changed LOT_SIZE filter from one exchangeInfo
\* answer to the next.
OverlapAnswer ==
  [faultLimit |-> MaxFaults,
   orderErrors |-> {"-2019", "-1013", "-2021", "-429", NoCode},
   positions |->
     [s \in Symbols |-> {0 - MaxPosSteps * ExchangeLotSize[s].stepSize}],
   balances |-> {MaxBal}, marks |-> {1},
   filters |-> [s \in Symbols |-> {ExchangeLotSize[t] : t \in Symbols}]]

InitOverlap ==
  /\ IdleInit
  /\ env = OverlapAnswer
  /\ \E s \in Symbols, g \in {"BUY", "sell"} :
       req = [p \in Procs |->
                [method |-> "POST",
                 body |-> [symbol |-> s, signal |-> IF p = 1 THEN "BUY" ELSE g]]]
  /\ pc = [p \in Procs |-> "start"]
  /\ so = [p \in Procs |-> SoIdle]

SpecOverlap == InitOverlap /\ [][Next]_vars

\* A direct call safeOrder(params, maxTry) with any request and any
\* maxTry >= 1, outside handler().
DirectQtys == {Num(3), Num(7), Num(10)}
DirectRequests ==
  {Req(s, sd, t, q, ro, pr, tif) :
     s \in Symbols, sd \in {"BUY"}, t \in {"MARKET", "LIMIT"}, q \in DirectQtys,
     ro \in {Absent, "true"}, pr \in {Absent, "50000"}, tif \in {Absent, "GTC"}}

InitSafeOrder ==
  /\ IdleInit
  /\ env = AnyAnswer
  /\ req = [p \in Procs |-> NoRequest]
  /\ pc = [p \in Procs |-> IF p = 1 THEN "direct" ELSE "absent"]
  /\ \E r \in DirectRequests, n \in 1..MaxTryBound :
       so = [p \in Procs |-> IF p = 1 THEN SoStart(r, n) ELSE SoIdle]

NextSafeOrder ==
  \E p \in Procs :
    \/ SubmitOrder(p)
    \/ CorrectMargin(p)
    \/ MarginDone(p)
    \/ CorrectPrecision(p)
    \/ PrecisionDone(p)
    \/ CorrectLimit(p)
    \/ CoolDown(p)
    \/ CoolDownDone(p)
    \/ NoCorrection(p)
    \/ Backoff(p)
    \/ RecomputeAccount(p)
    \/ RecomputePosition(p)
    \/ RecomputeDone(p)
    \/ ExchangeInfoResponse(p)

SpecSafeOrder == InitSafeOrder /\ [][NextSafeOrder]_vars

\* ------------------------------------------------------------- properties

\* C1: one call safeOrder(request, maxTry) with maxTry >= 1 performs at most
\* maxTry POST /fapi/v1/order submissions, whatever the exchange answers and
\* whatever corrections are applied.
C1_AtMostMaxTrySubmissions ==
  \A p \in Procs :
    so[p].pc # "none" =>
      /\ nSubmit[p] <= so[p].maxTry
      /\ calls[p]["order"] <= so[p].maxTry

\* a call with maxTry = 3 that used all its submissions, one of them corrected
\* after a -2021 rejection, and failed
C1_Witness ==
  \E p \in Procs :
    /\ so[p].pc = "threw"
    /\ so[p].maxTry = 3
    /\ calls[p]["order"] = 3
    /\ limitRejectedAt[p] = 2

\* C2: whenever safeOrder ends in failure, the error it propagates is exactly
\* the error raised by its last order submission.
C2_ThrowsLastSubmitError ==
  \A p \in Procs :
    so[p].pc = "threw" => so[p].thrown = lastSubmitErr[p]

\* C3: safeOrder fails only after maxTry order submissions have each failed.
C3_FailsOnlyWhenExhausted ==
  \A p \in Procs :
    so[p].pc = "threw" => nSubmit[p] = so[p].maxTry

\* C4: as soon as one order submission of a safeOrder call succeeds, the call
\* emits the "response" event and returns that result; after it, the call makes
\* no further submission, correction, cool-down or backoff.
C4_SuccessReturnsAtOnce ==
  [][\A p \in Procs :
       /\ (calls'[p]["order"] = calls[p]["order"] + 1 /\ orderSeq' = orderSeq + 1) =>
            /\ so'[p].pc = "returned"
            /\ so'[p].res = [orderId |-> orderSeq', req |-> sent'[p]]
            /\ lastEvent'[p] = Event("response", so[p].attempt, "", NoErr)
       /\ so[p].pc = "returned" =>
            /\ so'[p] = so[p] \/ so'[p] = SoIdle
            /\ calls'[p] = calls[p]
            /\ nSubmit'[p] = nSubmit[p]
            /\ sent'[p] = sent[p]
            /\ rq'[p] = rq[p]
            /\ gi'[p] = gi[p]]_vars

\* the closing order accepted at its second attempt, before handler() resumes
C4_Witness ==
  \E p \in Procs :
    /\ pc[p] = "close"
    /\ so[p].pc = "returned"
    /\ so[p].attempt = 2
    /\ nSubmit[p] = 2

\* the quantity recomputeQty returns from the frame of its running call
Recomputed(p) ==
  roundStep(RawQty(rq[p].bal, rq[p].mark), CACHED_INFO[rq[p].symbol].stepSize)

\* C5 as stated: after a -2019 failure that is followed by another attempt, the
\* quantity submitted next is the value recomputeQty returned, from a balance
\* and a mark price fetched after the failure, and it differs from the
\* quantity of the failed attempt.
C5_RecomputedAndDifferent ==
  [][\A p \in Procs :
       /\ (so[p].pc = "caught" /\ so'[p].pc = "margin") =>
            rq'[p] = RqStart(so[p].params.symbol)
       /\ (so[p].pc = "margin" /\ so'[p].pc = "backoff") =>
            /\ so'[p].params.quantity = Recomputed(p)
            /\ so'[p].params.quantity # sent[p].quantity
       /\ (so[p].pc = "backoff" /\ so'[p].pc = "submit") =>
            so'[p].params = so[p].params
       /\ (so[p].pc = "submit" /\ nSubmit'[p] = nSubmit[p] + 1) =>
            sent'[p] = so[p].params]_vars

\* C5 amended: after a -2019 failure that is followed by another attempt, the
\* quantity submitted next is the value recomputeQty returned, from a balance
\* and a mark price fetched after the failure; it may equal the quantity of the
\* failed attempt.
C5_Recomputed ==
  [][\A p \in Procs :
       /\ (so[p].pc = "caught" /\ so'[p].pc = "margin") =>
            rq'[p] = RqStart(so[p].params.symbol)
       /\ (so[p].pc = "margin" /\ so'[p].pc = "backoff") =>
            so'[p].params.quantity = Recomputed(p)
       /\ (so[p].pc = "backoff" /\ so'[p].pc = "submit") =>
            so'[p].params = so[p].params
       /\ (so[p].pc = "submit" /\ nSubmit'[p] = nSubmit[p] + 1) =>
            sent'[p] = so[p].params]_vars

\* the sizing order is submitted a second time after a -2019 failure, with a
\* recomputed quantity other than the one that failed
C5_Witness ==
  \E p \in Procs :
    /\ pc[p] = "order"
    /\ nSubmit[p] = 2
    /\ so[p].attempt = 2
    /\ ParseCode(lastSubmitErr[p]) = "-2019"
    /\ so[p].pc = "returned"
    /\ sent[p].quantity.v > 0

\* C6: once a submission of a safeOrder call failed with -2021, the request of
\* every later attempt of that call has type MARKET and neither price nor
\* timeInForce, whether or not it had them before.
IsPlainMarket(r) ==
  r.type = "MARKET" /\ r.price = Absent /\ r.timeInForce = Absent

C6_MarketAfterLimitRejection ==
  \A p \in Procs :
    limitRejectedAt[p] > 0 =>
      /\ nSubmit[p] > limitRejectedAt[p] => IsPlainMarket(sent[p])
      /\ so[p].attempt > limitRejectedAt[p] => IsPlainMarket(so[p].params)
      /\ so[p].pc \in {"backoff", "threw"} => IsPlainMarket(so[p].params)

\* a third attempt was submitted after the first one was rejected with -2021
C6_Witness ==
  \E p \in Procs :
    /\ limitRejectedAt[p] = 1
    /\ nSubmit[p] = 3
    /\ so[p].pc = "returned"
    /\ so[p].params.symbol = "ETHUSDT"

\* C7: with a position amount of 0 no closing order is submitted; with a
\* nonzero amount a the first closing request handed to safeOrder is exactly
\* {side: SELL if a > 0 else BUY, type: MARKET, quantity: |a|, reduceOnly: true}
\* for the signalled symbol.
ExpectedClose(p) ==
  [symbol |-> req[p].body.symbol,
   side |-> IF posAmt[p] > 0 THEN "SELL" ELSE "BUY",
   type |-> "MARKET",
   quantity |-> [v |-> IF posAmt[p] > 0 THEN posAmt[p] ELSE 0 - posAmt[p],
                 digits |-> NumDigits(posAmt[p])],
   reduceOnly |-> "true", price |-> Absent, timeInForce |-> Absent]

C7_FirstClosingRequest ==
  \A p \in Procs :
    /\ posAmt[p] = 0 =>
         /\ pc[p] # "close"
         /\ sent[p].reduceOnly = Absent
         /\ so[p].params.reduceOnly = Absent
    /\ (pc[p] = "close" /\ so[p].pc = "submit" /\ so[p].attempt = 1) =>
         so[p].params = ExpectedClose(p)
    /\ (pc[p] = "close" /\ nSubmit[p] = 1) => sent[p] = ExpectedClose(p)
    /\ (pc[p] = "close") => posAmt[p] # 0

\* the first closing order of a short position has been submitted
C7_Witness ==
  \E p \in Procs :
    /\ pc[p] = "close"
    /\ posAmt[p] < 0
    /\ nSubmit[p] = 1
    /\ sent[p].side = "BUY"

\* C8: every reduce-only order submission of a run, first attempt or retry,
\* has the side opposite to the sign of the position amount read at the start
\* of the run and a quantity equal to the absolute value of that amount.
C8_ClosingOrderMatchesPosition ==
  \A p \in Procs :
    sent[p].reduceOnly = "true" =>
      /\ sent[p].side = (IF posAmt[p] > 0 THEN "SELL" ELSE "BUY")
      /\ sent[p].quantity.v = Abs(posAmt[p])

\* C9: every quantity of an order submission is a non-negative multiple of the
\* symbol's stepSize, and so is every quantity recomputeQty returns.
IsStepMultiple(q, symbol) ==
  q.v >= 0 /\ q.v % ExchangeLotSize[symbol].stepSize = 0

C10_LeverageBeforeSizing ==
  \A p \in Procs :
    (rq[p].pc # "none" \/ calls[p]["account"] > 0) =>
      levSent[p] = 1 /\ calls[p]["leverage"] = 1

\* ------------------------------------------------------------- C11
CallCount(pr, o, l, a, e) ==
  [positionRisk |-> pr, order |-> o, leverage |-> l, account |-> a,
   exchangeInfo |-> e]

\* run p read an open position and the exchange rejected none of its requests
AllAccepted(p) == posAmt[p] # 0 /\ RunFails(p) = 0

\* the requests run p has had answered, by the place the run has reached;
\* `infos` are the exchangeInfo counts allowed once sizing reached line 52
C11_Stage(p, infos) ==
  /\ pc[p] \in {"close", "leverage", "size", "order", "done"}
  /\ pc[p] = "close" =>
       /\ so[p].pc \in {"submit", "returned"}
       /\ nSubmit[p] = (IF so[p].pc = "submit" THEN 0 ELSE 1)
       /\ calls[p] = CallCount(1, nSubmit[p], 0, 0, 0)
       /\ nSubmit[p] = 1 => sent[p] = ExpectedClose(p)
  /\ pc[p] = "leverage" => calls[p] = CallCount(1, 1, 0, 0, 0)
  /\ pc[p] \in {"size", "order", "done"} => levSent[p] = 1
  /\ (pc[p] = "size" /\ rq[p].pc = "account") =>
       calls[p] = CallCount(1, 1, 1, 0, 0)
  /\ (pc[p] = "size" /\ rq[p].pc = "position") =>
       calls[p] = CallCount(1, 1, 1, 1, 0)
  /\ (pc[p] = "size" /\ rq[p].pc \in {"info", "ret"}) =>
       /\ \E e \in infos : calls[p] = CallCount(2, 1, 1, 1, e)
       /\ gi[p].pc = "fetch" => calls[p]["exchangeInfo"] = 0
  /\ pc[p] = "size" => rq[p].pc \in {"account", "position", "info", "ret"}
  /\ pc[p] = "order" =>
       /\ so[p].pc \in {"submit", "returned"}
       /\ nSubmit[p] = (IF so[p].pc = "submit" THEN 0 ELSE 1)
       /\ \E e \in infos : calls[p] = CallCount(2, 1 + nSubmit[p], 1, 1, e)
  /\ (pc[p] \in {"order", "done"} /\ nSubmit[p] = 1) =>
       /\ sent[p] = so[p].params
       /\ sent[p].type = "MARKET"
       /\ sent[p].side = ToUpperCase(req[p].body.signal)
       /\ so[p].res.req = sent[p]
  /\ pc[p] = "done" =>
       /\ \E e \in infos : calls[p] = CallCount(2, 2, 1, 1, e)
       /\ response[p] = [status |-> 200, ok |-> TRUE, order |-> so[p].res,
                         error |-> NoErr]
       /\ nSubmit[p] = 1

\* the sizing request is built from the balance and the mark price that
\* recomputeQty, started after the leverage answer, has read
C11_SizedAfterLeverage(p) ==
  /\ (pc[p] = "leverage" /\ pc'[p] = "size") =>
       rq'[p] = RqStart(req[p].body.symbol)
  /\ (pc[p] = "size" /\ pc'[p] = "order") =>
       so'[p].params =
         [symbol |-> req[p].body.symbol, side |-> ToUpperCase(req[p].body.signal),
          type |-> "MARKET", quantity |-> Recomputed(p), reduceOnly |-> Absent,
          price |-> Absent, timeInForce |-> Absent]

\* C11 as stated: for a valid signal with an open position and an exchange
\* that accepts every call, the run's exchange calls are exactly: position
\* read, one reduce-only closing order, one leverage call to 1, account and
\* position read for sizing, one MARKET order with the signalled side and
\* quantity roundStep(walletBalance*0.998/markPrice, stepSize); the run
\* returns that order's result.
C11_OnlyListedCalls ==
  /\ [](\A p \in Procs : AllAccepted(p) => C11_Stage(p, {0}))
  /\ [][\A p \in Procs : AllAccepted(p) => C11_SizedAfterLeverage(p)]_vars

\* C11 amended: the same sequence, with one GET /fapi/v1/exchangeInfo between
\* the sizing position read and the final order when the symbol's filter is
\* not cached yet.
C11_CallsInOrder ==
  /\ [](\A p \in Procs : AllAccepted(p) => C11_Stage(p, {0, 1}))
  /\ [][\A p \in Procs : AllAccepted(p) => C11_SizedAfterLeverage(p)]_vars

\* a run that closed a position and placed its sizing order, with no request
\* rejected, has answered
C11_Witness ==
  \E p \in Procs :
    /\ AllAccepted(p)
    /\ pc[p] = "done"
    /\ response[p].ok
    /\ response[p].order.req.quantity.v > 0
    /\ calls[p]["order"] = 2

\* ------------------------------------------------------------- C12
\* the payload of run p lacks a field or names no side
BadPayload(p) ==
  \/ req[p].body.symbol = Absent
  \/ req[p].body.signal = Absent
  \/ ToUpperCase(req[p].body.signal) \notin {"BUY", "SELL"}

\* C12: a run whose payload lacks symbol or signal, or whose upper-cased
\* signal is neither BUY nor SELL, ends in failure without any exchange call
\* (no position read, order, leverage call, account read or exchangeInfo
\* fetch) and without touching the metadata cache.
C12_BadPayloadNoCalls ==
  \A p \in Procs :
    (pc[p] # "absent" /\ BadPayload(p)) =>
      /\ calls[p] = NoCalls
      /\ so[p] = SoIdle /\ rq[p] = RqIdle /\ gi[p] = GiIdle
      /\ levSent[p] = 0
      /\ ~forwarded[p]
      /\ pc[p] \in {"start", "fatal", "done"}
      /\ pc[p] = "done" => ~response[p].ok /\ response[p].status \in {405, 500}
      /\ (pc[p] = "done" /\ req[p].method = "POST") => response[p].status = 500
      /\ (\A q \in Procs \ {p} : pc[q] = "absent") =>
           CACHED_INFO = [s \in Symbols |-> NoFilter]

\* a POST whose signal is neither BUY nor SELL was answered with a failure
C12_Witness ==
  \E p \in Procs :
    /\ req[p].method = "POST"
    /\ req[p].body.symbol # Absent
    /\ req[p].body.signal = "HOLD"
    /\ pc[p] = "done"
    /\ response[p].status = 500

\* ------------------------------------------------------------- C13
\* a getExchangeInfo call of run p starts in this step
GiCalled(p) == gi[p].pc = "none" /\ gi'[p].pc # "none"

\* C13: once getExchangeInfo(symbol) has returned successfully, every later
\* call for the symbol returns the stored filter and issues no exchangeInfo
\* request, so the fetches for the symbol stay at 1; a failed fetch stores
\* nothing.
C13_CachedAfterFirstFetch ==
  /\ [][\A p \in Procs :
          /\ (GiCalled(p) /\ CACHED_INFO[gi'[p].symbol] # NoFilter) =>
               /\ gi'[p].pc = "ret"
               /\ gi'[p].ret = CACHED_INFO[gi'[p].symbol]
               /\ calls'[p]["exchangeInfo"] = calls[p]["exchangeInfo"]
               /\ CACHED_INFO' = CACHED_INFO
          /\ (GiCalled(p) /\ CACHED_INFO[gi'[p].symbol] = NoFilter) =>
               gi'[p].pc = "fetch"
          /\ (gi[p].pc = "fetch" /\ gi'[p].pc = "ret") =>
               /\ gi'[p].ret = ExchangeLotSize[gi[p].symbol]
               /\ CACHED_INFO'[gi[p].symbol] = gi'[p].ret
          /\ (gi[p].pc = "fetch" /\ gi'[p].pc = "none") =>
               CACHED_INFO' = CACHED_INFO
          /\ calls'[p]["exchangeInfo"] # calls[p]["exchangeInfo"] =>
               /\ gi[p].pc = "fetch"
               /\ CACHED_INFO[gi[p].symbol] = NoFilter]_vars
  /\ [](\A p \in Procs :
          /\ calls[p]["exchangeInfo"] - fails[p]["exchangeInfo"] <= 1
          /\ gi[p].pc = "fetch" => calls[p]["exchangeInfo"] = 0)

\* the sizing call fetched or found the filter; the -1013/-1111 correction of
\* the sizing order then called getExchangeInfo again and got it from the cache
C13_Witness ==
  \E p \in Procs :
    /\ pc[p] = "order"
    /\ so[p].pc = "precision"
    /\ gi[p].pc = "ret"
    /\ gi[p].ret = CACHED_INFO[gi[p].symbol]
    /\ calls[p]["exchangeInfo"] = 1

\* ------------------------------------------------------------- C14
\* r is the largest multiple of step that does not exceed x, and rounding r
\* again gives r
IsFloorToStep(x, step, r) ==
  /\ r.v % step = 0
  /\ r.v * x.d <= x.n
  /\ x.n - r.v * x.d < step * x.d
  /\ roundStep(Frac(r), step) = r

\* C14: for q >= 0 and step > 0, roundStep(q, step) is a multiple of step, does
\* not exceed q and is the largest such multiple (q - roundStep(q, step) <
\* step); roundStep(roundStep(q, step), step) = roundStep(q, step).  Stated for
\* the two calls of the program: line 54 (recomputeQty) and line 90 (the
\* -1013/-1111 correction).
C14_RoundStepFloorsToStep ==
  \A p \in Procs :
    /\ (rq[p].pc = "info" /\ gi[p].pc = "ret") =>
         LET x == RawQty(rq[p].bal, rq[p].mark)
         IN IsFloorToStep(x, gi[p].ret.stepSize, roundStep(x, gi[p].ret.stepSize))
    /\ (so[p].pc = "precision" /\ gi[p].pc = "ret") =>
         LET x == Frac(so[p].params.quantity)
         IN IsFloorToStep(x, gi[p].ret.stepSize, roundStep(x, gi[p].ret.stepSize))

\* ------------------------------------------------------------- C16
\* the "error" event of the failed submission of the current attempt
ErrorEventOf(p) ==
  Event("error", so[p].attempt, ParseCode(lastSubmitErr[p]), lastSubmitErr[p])

\* C16: each failed order submission emits an "error" event with the attempt,
\* the code and the message before any corrective transform, wait or rethrow
\* of that attempt, and every run (a POSTed signal) that ends in failure emits
\* a "fatal" event before its failure response is produced.
C16_EventBeforeHandling ==
  \A p \in Procs :
    /\ so[p].pc = "caught" =>
         /\ so[p].err = lastSubmitErr[p]
         /\ lastEvent[p] = ErrorEventOf(p)
         /\ so[p].params = sent[p]
         /\ so[p].thrown = NoErr
    /\ so[p].pc \in {"margin", "precision", "cooldown", "backoff"} =>
         lastEvent[p] = ErrorEventOf(p)
    /\ (so[p].pc = "threw" /\ pc[p] = "direct") =>
         lastEvent[p] = ErrorEventOf(p)
    /\ pc[p] = "fatal" =>
         /\ lastEvent[p] = Event("fatal", 0, "", exc[p])
         /\ exc[p] # NoErr
         /\ response[p] = NoResponse
    /\ (pc[p] = "done" /\ req[p].method = "POST" /\ ~response[p].ok) =>
         /\ response[p].status = 500
         /\ lastEvent[p] = Event("fatal", 0, "", response[p].error)

\* a run whose closing order was rejected on every attempt has logged "fatal"
\* and answered 500 with that error
C16_Witness ==
  \E p \in Procs :
    /\ pc[p] = "done"
    /\ response[p].status = 500
    /\ response[p].error = lastSubmitErr[p]
    /\ so[p].pc = "threw"
    /\ nSubmit[p] = 3
    /\ lastEvent[p].label = "fatal"

\* ------------------------------------------------------------- C17
\* C17: a sizing order is submitted only if the position was read as flat or
\* the closing safeOrder returned, and the leverage call succeeded.  If the
\* closing order fails the run makes no leverage call and no sizing order; a
\* failed leverage call is not retried (one leverage call per run at most) and
\* no account read or sizing order follows it.
C17_SizingOnlyAfterCloseAndLeverage ==
  /\ [](\A p \in Procs :
          /\ calls[p]["leverage"] <= 1
          /\ pc[p] \in {"size", "order"} =>
               calls[p]["leverage"] = 1 /\ fails[p]["leverage"] = 0
          /\ (sent[p] # NoReq /\ sent[p].reduceOnly = Absent /\ pc[p] # "direct") =>
               /\ calls[p]["leverage"] = 1 /\ fails[p]["leverage"] = 0
               /\ posAmt[p] # 0 => calls[p]["order"] - fails[p]["order"] >= 1
          /\ fails[p]["leverage"] > 0 =>
               /\ pc[p] \in {"fatal", "done"}
               /\ rq[p] = RqIdle /\ gi[p] = GiIdle
               /\ calls[p]["leverage"] = 1)
  /\ [][\A p \in Procs :
          /\ (pc'[p] = "leverage" /\ pc[p] # "leverage") =>
               \/ pc[p] = "position" /\ posAmt'[p] = 0
               \/ pc[p] = "close" /\ so[p].pc = "returned" /\ so[p].res # NoRes
          /\ (pc'[p] = "size" /\ pc[p] # "size") =>
               /\ pc[p] = "leverage"
               /\ fails'[p] = fails[p]
               /\ calls'[p]["leverage"] = 1
          /\ (pc'[p] = "order" /\ pc[p] # "order") => pc[p] = "size"
          /\ (pc[p] # "direct" /\ nSubmit'[p] = nSubmit[p] + 1
                /\ so[p].params.reduceOnly = Absent) => pc[p] = "order"
          /\ (pc[p] = "close" /\ so'[p].pc = "threw") =>
               /\ pc'[p] = "fatal"
               /\ calls'[p]["leverage"] = 0
          /\ fails'[p]["leverage"] # fails[p]["leverage"] => pc'[p] = "fatal"
          /\ pc[p] \in {"fatal", "done"} =>
               /\ pc'[p] \in {"fatal", "done"}
               /\ calls'[p] = calls[p]
               /\ so'[p] = so[p] /\ rq'[p] = rq[p] /\ gi'[p] = gi[p]]_vars

\* the leverage call of a run that closed a position was rejected and the
\* run has answered without an account read after it
C17_Witness ==
  \E p \in Procs :
    /\ fails[p]["leverage"] = 1
    /\ posAmt[p] # 0
    /\ pc[p] = "done"
    /\ response[p].status = 500
    /\ calls[p]["account"] = 0

\* ------------------------------------------------------------- C18
\* the fields a correction for code c may change are set back to those of r0
WithOwnFieldsOf(r, r0, c) ==
  IF c \in {"-2019", "-1013", "-1111"} THEN [r EXCEPT !.quantity = r0.quantity]
  ELSE IF c = "-2021"
  THEN [r EXCEPT !.type = r0.type, !.price = r0.price,
                 !.timeInForce = r0.timeInForce]
  ELSE r

\* C18: a correction changes only its own fields.  After a failure with a code
\* other than -2019, -1013, -1111 and -2021 (-429, -418 and "unknown"
\* included) the request of the next attempt is the request that failed;
\* -2019, -1013 and -1111 change only quantity; -2021 changes only type, price
\* and timeInForce; symbol, side and reduceOnly never change.
C18_CorrectionsChangeOwnFields ==
  /\ [](\A p \in Procs :
          /\ so[p].pc \in {"caught", "margin", "precision", "cooldown"} =>
               so[p].params = sent[p]
          /\ (so[p].pc = "backoff" \/ (so[p].pc = "submit" /\ so[p].attempt > 1)) =>
               /\ WithOwnFieldsOf(so[p].params, sent[p],
                                  ParseCode(lastSubmitErr[p])) = sent[p]
               /\ so[p].params.symbol = sent[p].symbol
               /\ so[p].params.side = sent[p].side
               /\ so[p].params.reduceOnly = sent[p].reduceOnly)
  /\ [][\A p \in Procs :
          /\ (so[p].pc = "submit" /\ nSubmit'[p] = nSubmit[p] + 1) =>
               sent'[p] = so[p].params
          /\ (so[p].pc = "backoff" /\ so'[p].pc = "submit") =>
               so'[p].params = so[p].params /\ so'[p].attempt = so[p].attempt + 1
          /\ (so[p].pc # "none" /\ so'[p].pc # "none") =>
               /\ so'[p].params.symbol = so[p].params.symbol
               /\ so'[p].params.side = so[p].params.side
               /\ so'[p].params.reduceOnly = so[p].params.reduceOnly]_vars

\* a LIMIT request with price and timeInForce failed with a code that has no
\* correction and is submitted again unchanged
C18_Witness ==
  \E p \in Procs :
    /\ so[p].pc = "returned"
    /\ nSubmit[p] = 2
    /\ ParseCode(lastSubmitErr[p]) \in {"-429", "-4164", "unknown"}
    /\ sent[p].type = "LIMIT"
    /\ sent[p].price # Absent
    /\ sent[p].reduceOnly = "true"

\* ------------------------------------------------------------- C15
\* C15: under overlapping invocations that call getExchangeInfo for the same
\* symbol, the value of a cache entry never changes once it has been written:
\* a duplicate write by a racing invocation stores the filter already present.
C15_CacheEntryNeverChanges ==
  [][\A s \in Symbols :
       CACHED_INFO[s] # NoFilter => CACHED_INFO'[s] = CACHED_INFO[s]]_vars

\* ------------------------------------------------------------- C20
\* run p has submitted a sizing order
SizingSubmitted(p) ==
  \/ pc[p] = "order" /\ nSubmit[p] >= 1
  \/ pc[p] = "done" /\ response[p].ok

\* C20: nothing serialises two overlapping runs for one symbol.  Once both
\* runs hold the same nonzero position snapshot, read before either closing
\* order was submitted, each of them submits a reduce-only closing order for
\* that amount and goes on to its own sizing order; the witness is the
\* execution in which both do so to the end.
C20_BothRunsCloseSameSnapshot ==
  raced =>
    /\ \A p, q \in Procs :
         /\ posAmt[p] = posAmt[q]
         /\ posAmt[p] # 0
         /\ req[p].body.symbol = req[q].body.symbol
    /\ \A p \in Procs :
         /\ pc[p] \notin {"start", "position"}
         /\ (pc[p] = "close" /\ so[p].pc = "submit" /\ so[p].attempt = 1) =>
              so[p].params = ExpectedClose(p)
         /\ (pc[p] = "close" /\ nSubmit[p] = 1) => sent[p] = ExpectedClose(p)
         /\ pc[p] \in {"leverage", "size", "order"} =>
              calls[p]["order"] - fails[p]["order"] >= 1
         /\ SizingSubmitted(p) =>
              /\ sent[p].reduceOnly = Absent
              /\ sent[p].side = ToUpperCase(req[p].body.signal)
              /\ calls[p]["order"] >= 2

\* both runs read the same short position before either closing order, both
\* closed it, and both have had their sizing order accepted
C20_Witness ==
  /\ raced
  /\ \A p \in Procs :
       /\ pc[p] = "done"
       /\ response[p].ok
       /\ posAmt[p] < 0
       /\ calls[p]["order"] - fails[p]["order"] = 2
       /\ response[p].order.req.reduceOnly = Absent
  /\ orderSeq >= 4

\* ------------------------------------------------------------- C19
\* C19: if every exchange call returns (with a result or an error) and every
\* timer fires, every safeOrder call reaches Success or Failed and every run
\* produces its response; nothing is retried forever.
C19_EveryRunAnswers ==
  \A p \in Procs :
    /\ (pc[p] = "start") ~> (pc[p] = "done" /\ response[p] # NoResponse)
    /\ (so[p].pc = "submit") ~> (so[p].pc \in {"returned", "threw"})

\* a run that went through a rate-limit cool-down and a second submission has
\* answered
C19_Witness ==
  \E p \in Procs :
    /\ pc[p] = "done"
    /\ response[p] # NoResponse
    /\ nSubmit[p] >= 2
    /\ ParseCode(lastSubmitErr[p]) \in {"-429", "-418"}
    /\ so[p].pc \in {"returned", "threw"}

====
